---- MODULE Spec2Model ----
(***************************************************************************)
(* Model of src/main.py (genre-bot): the SQLite store (progress cursor and *)
(* ratings), the command handlers that drive it, the scoring function and  *)
(* the two paginated views, of /rank and of /search.                       *)
(*                                                                         *)
(* Conventions.  A Python value that may be None is a sequence of length   *)
(* at most one: None is <<>> and v is <<v>>.  A Python str is a sequence   *)
(* of one-character strings.  A computed score, a float in the code, is    *)
(* kept in hundredths (0.35*8 + 0.65*6 is 670): for scores in 0..10 the    *)
(* doubles the code computes compare (<, =) exactly as these integers do.  *)
(* The column updated_at, which only the footer of the embed shows, is     *)
(* not modelled.                                                           *)
(***************************************************************************)
EXTENDS Integers, Sequences, FiniteSets, TLC

VARIABLES
    genres,     \* the catalog, main.py:264 (a sequence of names)
    progress,   \* table progress: user_id -> None or <<idx>>
    ratings,    \* table ratings: user_id -> genre_id -> None or <<row>>
    shown,      \* per user, what each /next has answered: <<genre_id, name>>
    nops,       \* number of handler runs so far
    last,       \* the last handler run: what it was given, read, passed on, answered
    call,       \* a call of computed_score: its arguments and its result
    view,       \* the RankView of the last /rank: None or <<its fields>>
    sview,      \* the SearchResultsView of the last /search: None or <<its fields>>
    procs       \* handlers running concurrently: per worker, where it stands

vars == <<genres, progress, ratings, shown, nops, last, call, view, sview, procs>>

(* what the handlers on the store leave alone *)
offStore == <<call, view, sview, procs>>

----------------------------------------------------------------------------
(* Optional values *)

None == <<>>

Some(v) == <<v>>

Val(o) == o[1]

----------------------------------------------------------------------------
(* Inputs *)

Users == {1, 2}

Digits == <<"0", "1", "2", "3", "4", "5", "6", "7", "8", "9">>

Str_x == <<"x">>

Str_y == <<"y", "z">>

Jazz == <<"J", "a", "z", "z">>

Pop == <<"P", "o", "p">>

Metal == <<"M", "e", "t", "a", "l">>

BaseCatalog == <<Jazz, Pop, Metal>>

RECURSIVE Decimal(_)
Decimal(n) == IF n < 10 THEN <<Digits[n + 1]>> ELSE Append(Decimal(n \div 10), Digits[(n % 10) + 1])

(* the name at position i of a catalog: the three base names, then G3, G4, .. *)
NameAt(i) == IF i < Len(BaseCatalog) THEN BaseCatalog[i + 1] ELSE <<"G">> \o Decimal(i)

(* a catalog of n names, as load_genres returns it (n >= 1) *)
CatalogOf(n) == [i \in 1..n |-> NameAt(i - 1)]

(* genre ids are the zero-based positions of the catalog, main.py:78-79 *)
GenreIds == 0 .. (Len(genres) - 1)

GenreName(g) == genres[g + 1]

----------------------------------------------------------------------------
(* Store: table progress *)

(* get_user_idx, the value returned: the stored idx, or 0 for a new user *)
get_user_idx(pr, u) == IF pr[u] = None THEN 0 ELSE Val(pr[u])

(* a get_user_idx that stores nothing *)
get_user_idx_table_NoInsert(pr, u) == pr

(* get_user_idx, the table afterwards: a new user gets the row (u, 0) *)
get_user_idx_table(pr, u) == IF pr[u] = None THEN [pr EXCEPT ![u] = Some(0)] ELSE pr

(* an insert that leaves an existing row alone (no DO UPDATE) *)
set_user_idx_InsertOnly(pr, u, idx) == IF pr[u] = None THEN [pr EXCEPT ![u] = Some(idx)] ELSE pr

(* set_user_idx: INSERT .. ON CONFLICT(user_id) DO UPDATE SET idx *)
set_user_idx(pr, u, idx) == [pr EXCEPT ![u] = Some(idx)]

----------------------------------------------------------------------------
(* Store: table ratings *)

NoFields == [score1 |-> None, score2 |-> None, flag1 |-> None, flag2 |-> None,
             comment |-> None]

get_rating(rt, u, g) == rt[u][g]

(* a merge that forgets the row read: every write starts from the defaults *)
MergeFields_Clobber(existing, f) ==
    [score1  |-> f.score1,
     score2  |-> f.score2,
     flag1   |-> IF f.flag1 = None THEN 0 ELSE Val(f.flag1),
     flag2   |-> IF f.flag2 = None THEN 0 ELSE Val(f.flag2),
     comment |-> f.comment]

(* upsert_rating, the merge of the keyword arguments f onto the row read *)
MergeFields(existing, f) ==
    IF existing /= None
    THEN [score1  |-> IF f.score1 = None THEN Val(existing).score1 ELSE f.score1,
          score2  |-> IF f.score2 = None THEN Val(existing).score2 ELSE f.score2,
          flag1   |-> IF f.flag1 = None THEN Val(existing).flag1 ELSE Val(f.flag1),
          flag2   |-> IF f.flag2 = None THEN Val(existing).flag2 ELSE Val(f.flag2),
          comment |-> IF f.comment = None THEN Val(existing).comment ELSE f.comment]
    ELSE [score1  |-> f.score1,
          score2  |-> f.score2,
          flag1   |-> IF f.flag1 = None THEN 0 ELSE Val(f.flag1),
          flag2   |-> IF f.flag2 = None THEN 0 ELSE Val(f.flag2),
          comment |-> f.comment]

(* a write that takes the user for the key: every row of the user is set *)
write_rating_AllGenres(rt, u, g, row) == [rt EXCEPT ![u] = [h \in DOMAIN rt[u] |-> Some(row)]]

(* upsert_rating, the write: INSERT .. ON CONFLICT(user_id, genre_id) DO UPDATE *)
write_rating(rt, u, g, row) == [rt EXCEPT ![u][g] = Some(row)]

(* upsert_rating run with nothing in between its read and its write *)
upsert_rating(rt, u, g, f) == write_rating(rt, u, g, MergeFields(get_rating(rt, u, g), f))

(* a toggle that sets the flag whatever it reads *)
ToggledFlag_Set(r, which) == 1

(* toggle_flag1 / toggle_flag2: the flag value computed from the row read *)
ToggledFlag(r, which) ==
    IF r /= None
    THEN (IF Val(r)[which] /= 0 THEN 0 ELSE 1)
    ELSE 1

----------------------------------------------------------------------------
(* RateModal.on_submit: parsing of the form *)

Whitespace == {" "}

IsDigit(c) == \E i \in 1..10 : Digits[i] = c

DigitVal(c) == (CHOOSE i \in 1..10 : Digits[i] = c) - 1

RECURSIVE lstrip(_)
lstrip(s) == IF s /= <<>> /\ Head(s) \in Whitespace THEN lstrip(Tail(s)) ELSE s

RECURSIVE rstrip(_)
rstrip(s) ==
    IF s /= <<>> /\ s[Len(s)] \in Whitespace THEN rstrip(SubSeq(s, 1, Len(s) - 1)) ELSE s

(* str.strip() *)
strip(s) == rstrip(lstrip(s))

RECURSIVE DigitsValue(_)
DigitsValue(s) ==
    IF s = <<>> THEN 0 ELSE 10 * DigitsValue(SubSeq(s, 1, Len(s) - 1)) + DigitVal(s[Len(s)])

AllDigits(s) == s /= <<>> /\ \A i \in 1..Len(s) : IsDigit(s[i])

(* int(v) accepts an optional sign and decimal digits; anything else raises *)
IntOk(v) ==
    IF v /= <<>> /\ Head(v) \in {"+", "-"} THEN AllDigits(Tail(v)) ELSE AllDigits(v)

IntOf(v) ==
    IF Head(v) = "-" THEN 0 - DigitsValue(Tail(v))
    ELSE IF Head(v) = "+" THEN DigitsValue(Tail(v))
    ELSE DigitsValue(v)

MinScore == 0

MaxScore == 10

(* a parse_score without the test n < 0 or n > 10 *)
parse_score_NoRange(v) ==
    IF v = <<>> THEN [err |-> FALSE, val |-> None]
    ELSE IF strip(v) = <<>> THEN [err |-> FALSE, val |-> None]
    ELSE IF ~IntOk(strip(v)) THEN [err |-> TRUE, val |-> None]
    ELSE [err |-> FALSE, val |-> Some(IntOf(strip(v)))]

(* parse_score: [err |-> it raised, val |-> what it returned] *)
parse_score(v) ==
    IF v = <<>> THEN [err |-> FALSE, val |-> None]
    ELSE IF strip(v) = <<>> THEN [err |-> FALSE, val |-> None]
    ELSE IF ~IntOk(strip(v)) THEN [err |-> TRUE, val |-> None]
    ELSE IF IntOf(strip(v)) < MinScore \/ IntOf(strip(v)) > MaxScore
         THEN [err |-> TRUE, val |-> None]
    ELSE [err |-> FALSE, val |-> Some(IntOf(strip(v)))]

(* the comment argument on_submit passes to upsert_rating *)
parse_comment(v) == IF v /= <<>> THEN Some(strip(v)) ELSE None

----------------------------------------------------------------------------
(* The handlers, each run from its first line to its last with no other    *)
(* handler in between (the bot's event loop runs one callback at a time    *)
(* and none of these awaits before its last store access).                 *)

NoCall == [op |-> "none", user |-> 0, genre |-> 0, fields |-> NoFields,
           existing |-> None, read |-> None, err |-> FALSE,
           arg |-> None, reply |-> None]

(* /next that stores the idx it read plus one, without the modulo *)
next_genre_Unwrapped(u) ==
    LET idx == get_user_idx(progress, u) % Len(genres)
    IN  /\ progress' = set_user_idx(get_user_idx_table(progress, u), u,
                                     get_user_idx(progress, u) + 1)
        /\ shown' = [shown EXCEPT ![u] = Append(@, <<idx, GenreName(idx)>>)]
        /\ last' = [NoCall EXCEPT !.op = "next_genre", !.user = u, !.genre = idx,
                                  !.read = progress[u]]
        /\ nops' = nops + 1
        /\ UNCHANGED <<genres, ratings, offStore>>

(* /next, main.py:270-283 *)
next_genre(u) ==
    LET idx == get_user_idx(progress, u) % Len(genres)
    IN  /\ progress' = set_user_idx(get_user_idx_table(progress, u), u, idx + 1)
        /\ shown' = [shown EXCEPT ![u] = Append(@, <<idx, GenreName(idx)>>)]
        /\ last' = [NoCall EXCEPT !.op = "next_genre", !.user = u, !.genre = idx,
                                  !.read = progress[u]]
        /\ nops' = nops + 1
        /\ UNCHANGED <<genres, ratings, offStore>>

(* the keyword arguments RateModal.on_submit passes to upsert_rating *)
SubmitFields(raw1, raw2, rawc) ==
    [NoFields EXCEPT !.score1 = parse_score(raw1).val,
                     !.score2 = parse_score(raw2).val,
                     !.comment = parse_comment(rawc)]

(* RateModal.on_submit, the table afterwards: a score that does not parse
   ends the handler before upsert_rating, main.py:195-200 *)
on_submit_table(rt, u, g, raw1, raw2, rawc) ==
    IF parse_score(raw1).err \/ parse_score(raw2).err
    THEN rt
    ELSE upsert_rating(rt, u, g, SubmitFields(raw1, raw2, rawc))

(* RateModal.on_submit, main.py:185-213 *)
on_submit(u, g, raw1, raw2, rawc) ==
    /\ ratings' = on_submit_table(ratings, u, g, raw1, raw2, rawc)
    /\ IF parse_score(raw1).err \/ parse_score(raw2).err
       THEN /\ last' = [NoCall EXCEPT !.op = "on_submit", !.user = u, !.genre = g,
                                      !.existing = get_rating(ratings, u, g),
                                      !.err = TRUE]
       ELSE /\ last' = [NoCall EXCEPT !.op = "on_submit", !.user = u, !.genre = g,
                                      !.fields = SubmitFields(raw1, raw2, rawc),
                                      !.existing = get_rating(ratings, u, g)]
    /\ nops' = nops + 1
    /\ UNCHANGED <<genres, progress, shown, offStore>>

(* GenreView.toggle_flag1 / toggle_flag2, the table afterwards *)
toggle_flag_table(rt, u, g, which) ==
    upsert_rating(rt, u, g,
                  [NoFields EXCEPT ![which] = Some(ToggledFlag(get_rating(rt, u, g), which))])

(* GenreView.toggle_flag1 / toggle_flag2, main.py:226-250 *)
toggle_flag(u, g, which) ==
    LET f == [NoFields EXCEPT ![which] = Some(ToggledFlag(get_rating(ratings, u, g), which))]
    IN  /\ ratings' = toggle_flag_table(ratings, u, g, which)
        /\ last' = [NoCall EXCEPT !.op = "toggle_" \o which, !.user = u, !.genre = g,
                                  !.fields = f,
                                  !.existing = get_rating(ratings, u, g)]
        /\ nops' = nops + 1
        /\ UNCHANGED <<genres, progress, shown, offStore>>

(* an /info that takes the id 0 for an invalid one *)
info_genre_RejectsZero(u, genre_id) ==
    /\ IF genre_id <= 0 \/ genre_id >= Len(genres)
       THEN last' = [NoCall EXCEPT !.op = "info_genre", !.user = u, !.genre = genre_id,
                                   !.err = TRUE]
       ELSE last' = [NoCall EXCEPT !.op = "info_genre", !.user = u, !.genre = genre_id,
                                   !.existing = get_rating(ratings, u, genre_id),
                                   !.reply = Some(GenreName(genre_id))]
    /\ nops' = nops + 1
    /\ UNCHANGED <<genres, progress, ratings, shown, offStore>>

(* /info, main.py:366-375: an id out of range is answered with a message;
   otherwise build_embed reads the user's row and the embed names the genre *)
info_genre(u, genre_id) ==
    /\ IF genre_id < 0 \/ genre_id >= Len(genres)
       THEN last' = [NoCall EXCEPT !.op = "info_genre", !.user = u, !.genre = genre_id,
                                   !.err = TRUE]
       ELSE last' = [NoCall EXCEPT !.op = "info_genre", !.user = u, !.genre = genre_id,
                                   !.existing = get_rating(ratings, u, genre_id),
                                   !.reply = Some(GenreName(genre_id))]
    /\ nops' = nops + 1
    /\ UNCHANGED <<genres, progress, ratings, shown, offStore>>

----------------------------------------------------------------------------
(* Spec: the handlers on the store, one after the other *)

MaxOps == 2

FormScores == {<<>>, <<"7">>, <<"1", "1">>}

FormComments == {<<>>, Str_x, <<" ">>}

(* the ids typed with /info: those of the catalog and some on either side *)
InfoIds == (-1) .. (Len(genres) + 1)

NoScoreCall == [skip |-> None, kiff |-> None, special |-> 0, flou |-> 0,
                done |-> FALSE, result |-> None]

Workers == {1, 2}

Idle == [pc |-> "idle", op |-> "none", user |-> 0, genre |-> 0, fields |-> NoFields,
         existing |-> None, idx |-> 0, failed |-> FALSE]

(* nothing going on besides the store *)
InitOff ==
    /\ call = NoScoreCall
    /\ view = None
    /\ sview = None
    /\ procs = [w \in Workers |-> Idle]

InitStore ==
    /\ progress = [u \in Users |-> None]
    /\ ratings = [u \in Users |-> [g \in GenreIds |-> None]]
    /\ shown = [u \in Users |-> <<>>]
    /\ nops = 0
    /\ last = NoCall
    /\ InitOff

Init ==
    /\ genres = SubSeq(BaseCatalog, 1, 2)
    /\ InitStore

Next ==
    /\ nops < MaxOps
    /\ \/ \E u \in Users : next_genre(u)
       \/ \E u \in Users, g \in GenreIds, raw1 \in FormScores, raw2 \in FormScores,
             rawc \in FormComments : on_submit(u, g, raw1, raw2, rawc)
       \/ \E u \in Users, g \in GenreIds : toggle_flag(u, g, "flag1")
       \/ \E u \in Users, g \in GenreIds : toggle_flag(u, g, "flag2")
       \/ \E u \in Users, genre_id \in InfoIds : info_genre(u, genre_id)

Spec == Init /\ [][Next]_vars

----------------------------------------------------------------------------
(* Claims on the store *)

FieldNames == {"score1", "score2", "flag1", "flag2", "comment"}

FlagNames == {"flag1", "flag2"}

(* how a supplied keyword argument sits in the row: flags as 0/1, the rest optional *)
StoredAs(k, arg) == IF k \in FlagNames THEN Val(arg) ELSE arg

DefaultOf(k) == IF k \in FlagNames THEN 0 ELSE None

(* after a write of f over `before`, field k holds the supplied value, else
   what was stored before, else the default *)
FieldKept(before, f, after, k) ==
    Val(after)[k] = IF f[k] /= None THEN StoredAs(k, f[k])
                    ELSE IF before /= None THEN Val(before)[k]
                    ELSE DefaultOf(k)

PartialWrite(before, f, after) ==
    /\ after /= None
    /\ \A k \in FieldNames : FieldKept(before, f, after, k)

(* keyword arguments of a further upsert_rating call: every subset of the
   fields, with two choices of values *)
ArgsA == [score1 |-> Some(3), score2 |-> Some(4), flag1 |-> Some(1), flag2 |-> Some(1),
          comment |-> Some(Str_y)]

ArgsB == [score1 |-> Some(0), score2 |-> Some(10), flag1 |-> Some(0), flag2 |-> Some(0),
          comment |-> Some(<<>>)]

SecondCalls ==
    { [k \in FieldNames |-> IF k \in m THEN a[k] ELSE None] :
        m \in SUBSET FieldNames, a \in {ArgsA, ArgsB} }

UpsertOps == {"on_submit", "toggle_flag1", "toggle_flag2"}

(* C1: sequential partial upsert.  In every reachable state: (1) the row the
   last upsert_rating call wrote holds every supplied field and, for every
   field it did not supply, what was stored before it (flags 0 and scores,
   comment absent when there was no row); (2) the same holds of any further
   upsert_rating call on that pair; (3) upsert {score1: 7} then upsert
   {comment: "x"} on any pair leaves score1 = 7 and comment = "x". *)
C1_PartialUpsert ==
    /\ (last.op \in UpsertOps /\ ~last.err) =>
          PartialWrite(last.existing, last.fields,
                       get_rating(ratings, last.user, last.genre))
    /\ last.op \in UpsertOps =>
          \A f \in SecondCalls :
              PartialWrite(get_rating(ratings, last.user, last.genre), f,
                  get_rating(upsert_rating(ratings, last.user, last.genre, f),
                             last.user, last.genre))
    /\ \A u \in Users, g \in GenreIds :
          LET rt1 == upsert_rating(ratings, u, g, [NoFields EXCEPT !.score1 = Some(7)])
              rt2 == upsert_rating(rt1, u, g, [NoFields EXCEPT !.comment = Some(Str_x)])
              r1  == Val(get_rating(rt1, u, g))
              r2  == Val(get_rating(rt2, u, g))
          IN  /\ r2.score1 = Some(7) /\ r2.comment = Some(Str_x)
              /\ r2.score2 = r1.score2 /\ r2.flag1 = r1.flag1 /\ r2.flag2 = r1.flag2

(* a second form submission that supplies the comment alone, over a row
   whose score1 a first one stored *)
C1_Witness ==
    /\ last.op = "on_submit" /\ ~last.err
    /\ last.existing /= None
    /\ Val(last.existing).score1 = Some(7)
    /\ Val(last.existing).comment = None
    /\ last.fields = [NoFields EXCEPT !.comment = Some(Str_x)]
    /\ Val(get_rating(ratings, last.user, last.genre)).score1 = Some(7)
    /\ Val(get_rating(ratings, last.user, last.genre)).comment = Some(Str_x)

----------------------------------------------------------------------------
(* SpecCursor: /next alone, over catalogs of every size up to MaxGenres *)

MaxGenres == 3

MaxCalls == MaxGenres + 3

InitCursor ==
    /\ \E n \in 1..MaxGenres : genres = CatalogOf(n)
    /\ InitStore

NextCursor == \E u \in Users : Len(shown[u]) < MaxCalls /\ next_genre(u)

SpecCursor == InitCursor /\ [][NextCursor]_vars

(* the ids the sentence lists for a catalog of n names: 0, 1, .., n-1, 0, 1, 2 *)
ListedIds(n) == [k \in 1..(n + 3) |-> IF k <= n THEN k - 1 ELSE k - n - 1]

(* C4 as stated: for every catalog size N >= 1 the first N+3 answers of /next
   to a new user carry the ids 0, 1, .., N-1, 0, 1, 2, each with the catalog
   name at the id answered. *)
C4_AsStated ==
    \A u \in Users : \A k \in 1..Len(shown[u]) :
        k <= Len(genres) + 3 =>
            /\ shown[u][k][1] = ListedIds(Len(genres))[k]
            /\ shown[u][k][2] = GenreName(shown[u][k][1])

(* C4 amended: the k-th answer of /next to a new user carries the id
   (k-1) mod N and the catalog name at that id; for N >= 3 the first N+3
   ids are 0, 1, .., N-1, 0, 1, 2. *)
C4_Cycle ==
    \A u \in Users : \A k \in 1..Len(shown[u]) :
        /\ shown[u][k] = <<(k - 1) % Len(genres), GenreName((k - 1) % Len(genres))>>
        /\ (Len(genres) >= 3 /\ k <= Len(genres) + 3) =>
               shown[u][k][1] = ListedIds(Len(genres))[k]

(* a user has had N+3 answers over a catalog of N >= 3 names, the other user
   having called /next in between *)
C4_Witness ==
    \E u \in Users :
        /\ Len(genres) >= 3
        /\ Len(shown[u]) = Len(genres) + 3
        /\ \E v \in Users \ {u} : Len(shown[v]) = 2

(* the idx stored before the last /next: 0 for a user who had no row *)
PrevIdx == IF last.read = None THEN 0 ELSE Val(last.read)

----------------------------------------------------------------------------
(* computed_score, main.py:377-391, in hundredths *)

WeightSkip == 50

WeightKiff == 50

WeightSkipFlou == 35

WeightKiffFlou == 65

(* the flou weights the wrong way round *)
computed_score_Swapped(skip, kiff, special, flou) ==
    IF special /= 0 THEN None
    ELSE IF skip = None \/ kiff = None THEN None
    ELSE IF flou /= 0 THEN Some(WeightKiffFlou * Val(skip) + WeightSkipFlou * Val(kiff))
    ELSE Some(WeightSkip * Val(skip) + WeightKiff * Val(kiff))

(* the special flag looked at only once both scores are there and flou is set *)
computed_score_SpecialLate(skip, kiff, special, flou) ==
    IF skip = None \/ kiff = None THEN None
    ELSE IF flou /= 0
         THEN (IF special /= 0 THEN None
               ELSE Some(WeightSkipFlou * Val(skip) + WeightKiffFlou * Val(kiff)))
    ELSE Some(WeightSkip * Val(skip) + WeightKiff * Val(kiff))

computed_score(skip, kiff, special, flou) ==
    IF special /= 0 THEN None
    ELSE IF skip = None \/ kiff = None THEN None
    ELSE IF flou /= 0 THEN Some(WeightSkipFlou * Val(skip) + WeightKiffFlou * Val(kiff))
    ELSE Some(WeightSkip * Val(skip) + WeightKiff * Val(kiff))

(* SpecScore: computed_score applied to every score pair (each score absent
   or in 0..10) and every setting of the two flags *)

OptScores == {None} \cup {Some(n) : n \in MinScore..MaxScore}

Flags == {0, 1}

InitScore ==
    /\ genres = BaseCatalog
    /\ progress = [u \in Users |-> None]
    /\ ratings = [u \in Users |-> [g \in GenreIds |-> None]]
    /\ shown = [u \in Users |-> <<>>]
    /\ nops = 0
    /\ last = NoCall
    /\ view = None
    /\ sview = None
    /\ procs = [w \in Workers |-> Idle]
    /\ \E a \in OptScores, b \in OptScores, s \in Flags, f \in Flags :
          call = [NoScoreCall EXCEPT !.skip = a, !.kiff = b, !.special = s, !.flou = f]

ScoreCall ==
    /\ ~call.done
    /\ call' = [call EXCEPT !.done = TRUE,
                            !.result = computed_score(call.skip, call.kiff,
                                                      call.special, call.flou)]
    /\ UNCHANGED <<genres, progress, ratings, shown, nops, last, view, sview, procs>>

SpecScore == InitScore /\ [][ScoreCall]_vars

(* C6: computed_score is absent whenever special is set, whatever the scores
   and flou are; it is absent whenever skip or kiff is absent; in every other
   case it is present. *)
C6_Absent ==
    call.done =>
        /\ call.special = 1 => call.result = None
        /\ (call.skip = None \/ call.kiff = None) => call.result = None
        /\ (call.special = 0 /\ call.skip /= None /\ call.kiff /= None) =>
               call.result /= None

(* special set over two present scores, flou unset: no score *)
C6_Witness ==
    /\ call.done
    /\ call.skip = Some(8) /\ call.kiff = Some(6)
    /\ call.special = 1 /\ call.flou = 0
    /\ call.result = None

(* C7: for a, b in 0..10 and special unset, the score is 0.5 a + 0.5 b when
   flou is unset and 0.35 a + 0.65 b when flou is set (in hundredths:
   50 a + 50 b, 35 a + 65 b); (8, 6) gives 7.00 and 6.70. *)
C7_Weights ==
    (call.done /\ call.special = 0 /\ call.skip /= None /\ call.kiff /= None) =>
        /\ call.flou = 0 => call.result = Some(50 * Val(call.skip) + 50 * Val(call.kiff))
        /\ call.flou = 1 => call.result = Some(35 * Val(call.skip) + 65 * Val(call.kiff))
        /\ (call.skip = Some(8) /\ call.kiff = Some(6)) =>
               call.result = IF call.flou = 1 THEN Some(670) ELSE Some(700)

(* (8, 6) with flou set has been scored 6.70 *)
C7_Witness ==
    /\ call.done
    /\ call.skip = Some(8) /\ call.kiff = Some(6)
    /\ call.special = 0 /\ call.flou = 1
    /\ call.result = Some(670)

----------------------------------------------------------------------------
(* /rank and RankView, main.py:477-590 *)

PageSize == 15

RECURSIVE RowsUpTo(_, _, _)
(* the rows of user u with genre_id < n, by ascending genre_id *)
RowsUpTo(rt, u, n) ==
    IF n = 0 THEN <<>>
    ELSE IF rt[u][n - 1] = None THEN RowsUpTo(rt, u, n - 1)
    ELSE Append(RowsUpTo(rt, u, n - 1),
                [genre_id |-> n - 1, score1 |-> Val(rt[u][n - 1]).score1,
                 score2 |-> Val(rt[u][n - 1]).score2, flag1 |-> Val(rt[u][n - 1]).flag1,
                 flag2 |-> Val(rt[u][n - 1]).flag2, comment |-> Val(rt[u][n - 1]).comment])

Reverse(s) == [i \in 1..Len(s) |-> s[Len(s) + 1 - i]]

(* the SELECT has no ORDER BY: SQLite walks the primary-key index of
   (user_id, genre_id), forwards, or backwards under reverse_unordered_selects *)
Scans == {"forward", "backward"}

(* fetch_user_rows *)
fetch_user_rows(rt, u, scan) ==
    IF scan = "forward" THEN RowsUpTo(rt, u, Len(genres))
    ELSE Reverse(RowsUpTo(rt, u, Len(genres)))

RowScore(row) == computed_score(row.score1, row.score2, row.flag1, row.flag2)

RECURSIVE RankItems_KeepSpecial(_)
(* the loop of rank with the score taken as if no row were special *)
RankItems_KeepSpecial(rows) ==
    IF rows = <<>> THEN <<>>
    ELSE LET row  == rows[Len(rows)]
             sc   == computed_score(row.score1, row.score2, 0, row.flag2)
             rest == RankItems_KeepSpecial(SubSeq(rows, 1, Len(rows) - 1))
         IN  IF sc = None THEN rest
             ELSE Append(rest, <<Val(sc), row.genre_id, GenreName(row.genre_id)>>)

RECURSIVE RankItems(_)
(* the loop of rank, main.py:573-578: items as (score, genre_id, name) *)
RankItems(rows) ==
    IF rows = <<>> THEN <<>>
    ELSE LET row  == rows[Len(rows)]
             sc   == RowScore(row)
             rest == RankItems(SubSeq(rows, 1, Len(rows) - 1))
         IN  IF sc = None THEN rest
             ELSE Append(rest, <<Val(sc), row.genre_id, GenreName(row.genre_id)>>)

(* x put into the sorted s behind every element that does not sort after it *)
InsertSorted(s, x, reverse) ==
    LET n == Cardinality({i \in 1..Len(s) :
                            IF reverse THEN s[i][1] >= x[1] ELSE s[i][1] <= x[1]})
    IN  SubSeq(s, 1, n) \o <<x>> \o SubSeq(s, n + 1, Len(s))

RECURSIVE StableSort(_, _)
(* sorted(items, key=score, reverse=reverse): stable in both directions *)
StableSort(items, reverse) ==
    IF items = <<>> THEN <<>>
    ELSE InsertSorted(StableSort(SubSeq(items, 1, Len(items) - 1), reverse),
                      items[Len(items)], reverse)

(* a descending sort made by reversing the ascending one *)
sorted_items_Reversed(items, order) ==
    IF order = "desc" THEN Reverse(StableSort(items, FALSE)) ELSE StableSort(items, FALSE)

(* RankView._sorted_items *)
sorted_items(items, order) == StableSort(items, order = "desc")

(* math.ceil(a / b) for a >= 0, b > 0 *)
Ceil(a, b) == (a + b - 1) \div b

Max(a, b) == IF a >= b THEN a ELSE b

Min(a, b) == IF a <= b THEN a ELSE b

(* RankView._total_pages *)
total_pages(items) == Max(1, Ceil(Len(items), PageSize))

(* s[start:end] of Python, for 0 <= start <= end *)
Slice(s, start, end) == SubSeq(s, start + 1, Min(end, Len(s)))

(* RankView._page_slice *)
page_slice(items, order, page) ==
    [items |-> Slice(sorted_items(items, order), page * PageSize,
                     page * PageSize + PageSize),
     start |-> page * PageSize,
     end   |-> page * PageSize + PageSize,
     total |-> Len(sorted_items(items, order))]

(* a numbering that starts again on every page *)
rank_start_PerPage(start) == 1

(* RankView._make_embed: rank_start *)
rank_start(start) == start + 1

(* RankView._make_embed: the subtitle's numbers and the lines of the page *)
make_embed(items, order, page) ==
    LET ps == page_slice(items, order, page)
    IN  [total |-> ps.total, page_no |-> page + 1, pages |-> total_pages(items),
         order |-> order,
         lines |-> [j \in 1..Len(ps.items) |->
                       [rank |-> rank_start(ps.start) + (j - 1), score |-> ps.items[j][1],
                        genre_id |-> ps.items[j][2], name |-> ps.items[j][3]]]]

(* RankView._update_buttons, applied to the view record *)
update_buttons(v) ==
    [v EXCEPT !.prev_disabled = (v.page <= 0),
              !.next_disabled = (v.page >= total_pages(v.items) - 1)]

(* the message edit that ends every callback of the view *)
render(v) == [v EXCEPT !.embed = make_embed(v.items, v.order, v.page)]

(* RankView.__init__ *)
NewRankView(u, rows, items) ==
    update_buttons([user_id |-> u, items |-> items, order |-> "desc", page |-> 0,
                    prev_disabled |-> FALSE, next_disabled |-> FALSE,
                    stopped |-> FALSE, rows |-> rows,
                    embed |-> make_embed(<<>>, "desc", 0)])

offView == <<genres, progress, ratings, shown, nops, call, sview, procs>>

(* /rank, main.py:568-590 *)
rank(u, scan) ==
    LET rows  == fetch_user_rows(ratings, u, scan)
        items == RankItems(rows)
    IN  /\ IF items = <<>>
           THEN view' = view
           ELSE view' = Some(render(NewRankView(u, rows, items)))
        /\ last' = [NoCall EXCEPT !.op = "rank", !.user = u, !.err = (items = <<>>)]
        /\ UNCHANGED offView

(* a view that takes the interactions of any user *)
Accepts_Anyone(u) == view /= None /\ ~Val(view).stopped

(* the view takes a component interaction from its owner, until it is stopped *)
Accepts(u) == view /= None /\ ~Val(view).stopped /\ Val(view).user_id = u

(* RankView.interaction_check refusing another user *)
rank_refused(u) ==
    /\ view /= None /\ ~Val(view).stopped /\ Val(view).user_id /= u
    /\ last' = [NoCall EXCEPT !.op = "rank_refused", !.user = u, !.read = Some(Val(view).page)]
    /\ UNCHANGED <<view, offView>>

(* RankView.prev_button *)
rank_prev(u) ==
    /\ Accepts(u)
    /\ view' = Some(render(update_buttons(
                   [Val(view) EXCEPT !.page = Max(0, Val(view).page - 1)])))
    /\ last' = [NoCall EXCEPT !.op = "rank_prev", !.user = u, !.read = Some(Val(view).page)]
    /\ UNCHANGED offView

(* RankView.next_button *)
rank_next(u) ==
    /\ Accepts(u)
    /\ view' = Some(render(update_buttons(
                   [Val(view) EXCEPT !.page = Min(total_pages(Val(view).items) - 1,
                                                  Val(view).page + 1)])))
    /\ last' = [NoCall EXCEPT !.op = "rank_next", !.user = u, !.read = Some(Val(view).page)]
    /\ UNCHANGED offView

(* a select that changes the order and stays on the page *)
rank_select_KeepPage(u, order) ==
    /\ Accepts(u)
    /\ view' = Some(render(update_buttons([Val(view) EXCEPT !.order = order])))
    /\ last' = [NoCall EXCEPT !.op = "rank_select", !.user = u, !.arg = Some(order),
                              !.read = Some(Val(view).page)]
    /\ UNCHANGED offView

(* RankOrderSelect.callback *)
rank_select(u, order) ==
    /\ Accepts(u)
    /\ view' = Some(render(update_buttons([Val(view) EXCEPT !.order = order, !.page = 0])))
    /\ last' = [NoCall EXCEPT !.op = "rank_select", !.user = u, !.arg = Some(order),
                              !.read = Some(Val(view).page)]
    /\ UNCHANGED offView

(* RankView.close_button *)
rank_close(u) ==
    /\ Accepts(u)
    /\ view' = Some([Val(view) EXCEPT !.stopped = TRUE])
    /\ last' = [NoCall EXCEPT !.op = "rank_close", !.user = u, !.read = Some(Val(view).page)]
    /\ UNCHANGED offView

----------------------------------------------------------------------------
(* SpecRank: /rank and its view over stores that hold up to MaxRated rows of
   one user.  Every such store is one the form and the two toggles leave. *)

MaxRated == 31

Tables == {"mixed", "ties"}

(* the row of genre g in a table: "mixed" has special rows, rows short of a
   score and flou rows; "ties" has two scores only, 5.00 and 6.00 *)
TableRow(t, g) ==
    IF t = "mixed"
    THEN [score1 |-> IF g % 7 = 3 THEN None ELSE Some((3 * g) % 11),
          score2 |-> IF g % 5 = 4 THEN None ELSE Some((g * g) % 11),
          flag1 |-> IF g % 4 = 2 THEN 1 ELSE 0,
          flag2 |-> g % 2,
          comment |-> IF g % 3 = 0 THEN Some(Str_x) ELSE None]
    ELSE [score1 |-> Some(5 + (g % 2)),
          score2 |-> Some(5 + (g % 2)),
          flag1 |-> 0,
          flag2 |-> (g \div 2) % 2,
          comment |-> None]

InitRank ==
    /\ genres = CatalogOf(MaxRated)
    /\ progress = [u \in Users |-> None]
    /\ shown = [u \in Users |-> <<>>]
    /\ nops = 0
    /\ last = NoCall
    /\ InitOff
    /\ \E n \in 0..MaxRated, t \in Tables :
          ratings = [u \in Users |-> [g \in GenreIds |->
                        IF u = 1 /\ g < n THEN Some(TableRow(t, g))
                        ELSE IF u = 2 /\ t = "mixed" /\ g \in {1, 2} THEN Some(TableRow(t, g))
                        ELSE None]]

Orders == {"desc", "asc"}

NextRank ==
    \/ \E u \in Users, scan \in Scans : rank(u, scan)
    \/ \E u \in Users : rank_prev(u)
    \/ \E u \in Users : rank_next(u)
    \/ \E u \in Users, order \in Orders : rank_select(u, order)
    \/ \E u \in Users : rank_close(u)
    \/ \E u \in Users : rank_refused(u)

SpecRank == InitRank /\ [][NextRank]_vars

----------------------------------------------------------------------------
(* Claims on /rank and RankView *)

(* the row has a computed score: not special and both scores there *)
Scorable(row) == row.flag1 = 0 /\ row.score1 /= None /\ row.score2 /= None

(* the score of a scorable row, from the weights of the specification *)
ScoreOf(row) ==
    IF row.flag2 = 1 THEN 35 * Val(row.score1) + 65 * Val(row.score2)
    ELSE 50 * Val(row.score1) + 50 * Val(row.score2)

(* items holds one entry per scorable row of rows and nothing else *)
RankingOf(rows, items) ==
    /\ \A i \in 1..Len(rows) :
          Cardinality({k \in 1..Len(items) : items[k][2] = rows[i].genre_id})
              = IF Scorable(rows[i]) THEN 1 ELSE 0
    /\ \A k \in 1..Len(items) :
          \E i \in 1..Len(rows) :
              /\ rows[i].genre_id = items[k][2]
              /\ items[k][3] = GenreName(rows[i].genre_id)
              /\ items[k][1] = ScoreOf(rows[i])

(* the rows fetched are the rows the store holds for the user, each once *)
RowsOf(u, rows) ==
    /\ \A g \in GenreIds :
          Cardinality({i \in 1..Len(rows) : rows[i].genre_id = g})
              = IF ratings[u][g] = None THEN 0 ELSE 1
    /\ \A i \in 1..Len(rows) :
          /\ rows[i].genre_id \in GenreIds
          /\ ratings[u][rows[i].genre_id] /= None
          /\ \A k \in FieldNames : rows[i][k] = Val(ratings[u][rows[i].genre_id])[k]

(* C8: the ranking built for a user holds exactly one entry for each of the
   user's ratings that has a computed score, none for a rating that is special
   or short of a score, and each entry carries the rating's genre id, the
   catalog name at that id and its computed score.  Stated of the view /rank
   has built and of the items /rank would build now, for either user. *)
C8_Ranking ==
    /\ view /= None =>
          /\ RowsOf(Val(view).user_id, Val(view).rows)
          /\ RankingOf(Val(view).rows, Val(view).items)
    /\ \A u \in Users, scan \in Scans :
          /\ RowsOf(u, fetch_user_rows(ratings, u, scan))
          /\ RankingOf(fetch_user_rows(ratings, u, scan),
                       RankItems(fetch_user_rows(ratings, u, scan)))

(* a view built from rows of which one is special with both scores, one is
   short of a score, and more than a page are scored *)
C8_Witness ==
    /\ view /= None
    /\ \E i \in 1..Len(Val(view).rows) :
          /\ Val(view).rows[i].flag1 = 1
          /\ Val(view).rows[i].score1 /= None /\ Val(view).rows[i].score2 /= None
    /\ \E i \in 1..Len(Val(view).rows) :
          Val(view).rows[i].flag1 = 0 /\ Val(view).rows[i].score2 = None
    /\ Len(Val(view).items) > PageSize
    /\ Len(Val(view).items) < Len(Val(view).rows)

(* the position of the entry of genre g in s *)
PosOf(s, g) == CHOOSE k \in 1..Len(s) : s[k][2] = g

(* s is items reordered: by score in the direction of order, entries of equal
   score in the order they have in items *)
StablySorted(items, order, s) ==
    /\ Len(s) = Len(items)
    /\ \A i \in 1..Len(items) :
          Cardinality({k \in 1..Len(s) : s[k] = items[i]}) = 1
    /\ \A k \in 1..(Len(s) - 1) :
          IF order = "desc" THEN s[k][1] >= s[k + 1][1] ELSE s[k][1] <= s[k + 1][1]
    /\ \A i \in 1..Len(items) : \A j \in (i + 1)..Len(items) :
          items[i][1] = items[j][1] => PosOf(s, items[i][2]) < PosOf(s, items[j][2])

(* C9: the ranked sequence is a permutation of the scored items, ordered by
   score (non-increasing for desc, non-decreasing for asc), and entries of
   equal score keep the relative order of the fetch, in both directions.
   Stated of both orders of every view, and of the page the view shows. *)
C9_StableSort ==
    view /= None =>
        /\ \A order \in Orders :
              StablySorted(Val(view).items, order, sorted_items(Val(view).items, order))
        /\ \A j \in 1..Len(Val(view).embed.lines) :
              LET line == Val(view).embed.lines[j]
                  e    == sorted_items(Val(view).items, Val(view).order)[
                              Val(view).page * PageSize + j]
              IN  line.score = e[1] /\ line.genre_id = e[2] /\ line.name = e[3]

(* the view shows the second page in ascending order, over items of which
   two have the same score and two have not *)
C9_Witness ==
    /\ view /= None
    /\ Val(view).order = "asc"
    /\ Val(view).page = 1
    /\ \E i \in 1..Len(Val(view).items) : \E j \in (i + 1)..Len(Val(view).items) :
          Val(view).items[i][1] = Val(view).items[j][1]
    /\ \E i \in 1..Len(Val(view).items) : \E j \in (i + 1)..Len(Val(view).items) :
          Val(view).items[i][1] > Val(view).items[j][1]

RECURSIVE RanksUpTo(_, _, _)
(* the rank numbers of pages 0 .. p-1 of the view, in order *)
RanksUpTo(items, order, p) ==
    IF p = 0 THEN <<>>
    ELSE RanksUpTo(items, order, p - 1)
         \o [j \in 1..Len(make_embed(items, order, p - 1).lines) |->
                make_embed(items, order, p - 1).lines[j].rank]

(* C10: the entry at 0-based position j of page p is shown with rank
   1 + p * page_size + j, so the ranks of pages 0 .. totalPages-1 are exactly
   1 .. n, in both sort orders.  Stated of the page the view shows and of
   every page it can show. *)
C10_Ranks ==
    view /= None =>
        /\ \A j \in 1..Len(Val(view).embed.lines) :
              Val(view).embed.lines[j].rank = 1 + Val(view).page * PageSize + (j - 1)
        /\ \A order \in Orders :
              /\ \A p \in 0..(total_pages(Val(view).items) - 1) :
                    \A j \in 1..Len(make_embed(Val(view).items, order, p).lines) :
                        make_embed(Val(view).items, order, p).lines[j].rank
                            = 1 + p * PageSize + (j - 1)
              /\ RanksUpTo(Val(view).items, order, total_pages(Val(view).items))
                    = [k \in 1..Len(Val(view).items) |-> k]

(* the view shows its third page, whose first line has rank 31 *)
C10_Witness ==
    /\ view /= None
    /\ Val(view).page = 2
    /\ Len(Val(view).embed.lines) >= 1
    /\ Val(view).embed.lines[1].rank = 2 * PageSize + 1

----------------------------------------------------------------------------
(* SpecConc: two workers run handlers on the one database at the same time.
   A step is one SQLite transaction: each `with db_connect()` block of
   get_rating, upsert_rating and set_user_idx, and in get_user_idx the SELECT
   and the INSERT (the SELECT holds no lock once it has returned).  Nothing
   in the code ties the transactions of a handler together: within one bot
   process the event loop keeps the handlers apart (Spec), and spec.md
   section 5 asks for the store to be safe without that, as when two bot
   processes share bot.db. *)

offConc == <<genres, nops, last, call, view, sview>>

(* a worker takes up /next for user u *)
conc_next_begin(w, u) ==
    /\ procs[w].pc = "idle"
    /\ procs' = [procs EXCEPT ![w] = [Idle EXCEPT !.pc = "idx_select", !.op = "next_genre",
                                                  !.user = u]]
    /\ UNCHANGED <<progress, ratings, shown, offConc>>

(* get_user_idx: SELECT idx FROM progress *)
conc_idx_select(w) ==
    /\ procs[w].pc = "idx_select"
    /\ procs' = [procs EXCEPT ![w] =
                    IF progress[procs[w].user] = None
                    THEN [@ EXCEPT !.pc = "idx_insert"]
                    ELSE [@ EXCEPT !.pc = "idx_set", !.idx = Val(progress[procs[w].user])]]
    /\ UNCHANGED <<progress, ratings, shown, offConc>>

(* get_user_idx: INSERT INTO progress(user_id, idx) VALUES(?, 0); user_id is
   the primary key, so the insert raises sqlite3.IntegrityError when a row is
   there by now, and nothing catches it *)
conc_idx_insert(w) ==
    /\ procs[w].pc = "idx_insert"
    /\ IF progress[procs[w].user] = None
       THEN /\ progress' = [progress EXCEPT ![procs[w].user] = Some(0)]
            /\ procs' = [procs EXCEPT ![w] = [@ EXCEPT !.pc = "idx_set", !.idx = 0]]
       ELSE /\ progress' = progress
            /\ procs' = [procs EXCEPT ![w] = [@ EXCEPT !.pc = "done", !.failed = TRUE]]
    /\ UNCHANGED <<ratings, shown, offConc>>

(* next_genre: idx % len(genres), set_user_idx(idx + 1), the reply *)
conc_idx_set(w) ==
    /\ procs[w].pc = "idx_set"
    /\ progress' = set_user_idx(progress, procs[w].user,
                                (procs[w].idx % Len(genres)) + 1)
    /\ shown' = [shown EXCEPT ![procs[w].user] =
                    Append(@, <<procs[w].idx % Len(genres),
                                GenreName(procs[w].idx % Len(genres))>>)]
    /\ procs' = [procs EXCEPT ![w] = [@ EXCEPT !.pc = "done",
                                               !.genre = procs[w].idx % Len(genres)]]
    /\ UNCHANGED <<ratings, offConc>>

(* a worker takes up a form submission; an invalid score ends it at once *)
conc_submit_begin(w, u, g, raw1, raw2, rawc) ==
    /\ procs[w].pc = "idle"
    /\ procs' = [procs EXCEPT ![w] =
                    IF parse_score(raw1).err \/ parse_score(raw2).err
                    THEN [Idle EXCEPT !.pc = "done", !.op = "on_submit", !.user = u,
                                      !.genre = g]
                    ELSE [Idle EXCEPT !.pc = "upsert_read", !.op = "on_submit",
                                      !.user = u, !.genre = g,
                                      !.fields = SubmitFields(raw1, raw2, rawc)]]
    /\ UNCHANGED <<progress, ratings, shown, offConc>>

(* toggle_flag1 / toggle_flag2: get_rating, then the flag to write *)
conc_toggle_begin(w, u, g, which) ==
    /\ procs[w].pc = "idle"
    /\ procs' = [procs EXCEPT ![w] =
                    [Idle EXCEPT !.pc = "upsert_read", !.op = "toggle_" \o which,
                                 !.user = u, !.genre = g,
                                 !.fields = [NoFields EXCEPT ![which] =
                                     Some(ToggledFlag(get_rating(ratings, u, g), which))]]]
    /\ UNCHANGED <<progress, ratings, shown, offConc>>

(* upsert_rating: existing = get_rating(user_id, genre_id) *)
conc_upsert_read(w) ==
    /\ procs[w].pc = "upsert_read"
    /\ procs' = [procs EXCEPT ![w] =
                    [@ EXCEPT !.pc = "upsert_write",
                              !.existing = get_rating(ratings, procs[w].user,
                                                      procs[w].genre)]]
    /\ UNCHANGED <<progress, ratings, shown, offConc>>

(* upsert_rating: the merge onto the row read, and the write *)
conc_upsert_write(w) ==
    /\ procs[w].pc = "upsert_write"
    /\ ratings' = write_rating(ratings, procs[w].user, procs[w].genre,
                               MergeFields(procs[w].existing, procs[w].fields))
    /\ procs' = [procs EXCEPT ![w] = [@ EXCEPT !.pc = "done"]]
    /\ UNCHANGED <<progress, shown, offConc>>

ConcScores == {<<>>, <<"7">>}

ConcComments == {<<>>, Str_x}

InitConc ==
    /\ genres = SubSeq(BaseCatalog, 1, 2)
    /\ InitStore

NextConc ==
    \E w \in Workers :
        \/ \E u \in Users : conc_next_begin(w, u)
        \/ conc_idx_select(w)
        \/ conc_idx_insert(w)
        \/ conc_idx_set(w)
        \/ \E u \in Users, g \in GenreIds, raw1 \in ConcScores, raw2 \in ConcScores,
              rawc \in ConcComments : conc_submit_begin(w, u, g, raw1, raw2, rawc)
        \/ \E u \in Users, g \in GenreIds, which \in FlagNames :
              conc_toggle_begin(w, u, g, which)
        \/ conc_upsert_read(w)
        \/ conc_upsert_write(w)

SpecConc == InitConc /\ [][NextConc]_vars

(* worker w has run upsert_rating to its end *)
UpsertDone(w) ==
    /\ procs[w].pc = "done"
    /\ procs[w].op \in UpsertOps
    /\ procs[w].fields /= NoFields

(* C2: concurrent upserts do not lose updates.  When two upsert_rating calls
   on the same (user, genre) that supply different fields have both
   completed, the row holds the field values each of them supplied. *)
C2_NoLostUpdate ==
    \A w1 \in Workers : \A w2 \in Workers \ {w1} :
        ( /\ UpsertDone(w1) /\ UpsertDone(w2)
          /\ procs[w1].user = procs[w2].user /\ procs[w1].genre = procs[w2].genre
          /\ \A k \in FieldNames : procs[w1].fields[k] = None \/ procs[w2].fields[k] = None )
        => \A k \in FieldNames :
              procs[w1].fields[k] /= None =>
                  Val(get_rating(ratings, procs[w1].user, procs[w1].genre))[k]
                      = StoredAs(k, procs[w1].fields[k])

(* C3: concurrent first access is safe.  No /next fails on the insert of the
   cursor row, and a user for whom a /next has completed has a cursor row. *)
C3_SafeFirstAccess ==
    \A w \in Workers :
        /\ ~procs[w].failed
        /\ (procs[w].op = "next_genre" /\ procs[w].pc = "done") =>
               progress[procs[w].user] /= None

----------------------------------------------------------------------------
(* /search and SearchResultsView, main.py:286-363 *)

UpperLetters == <<"A", "B", "C", "D", "E", "F", "G", "H", "I", "J", "K", "L", "M",
                  "N", "O", "P", "Q", "R", "S", "T", "U", "V", "W", "X", "Y", "Z">>

LowerLetters == <<"a", "b", "c", "d", "e", "f", "g", "h", "i", "j", "k", "l", "m",
                  "n", "o", "p", "q", "r", "s", "t", "u", "v", "w", "x", "y", "z">>

(* str.lower on one character *)
lower_char(c) ==
    IF \E i \in 1..Len(UpperLetters) : UpperLetters[i] = c
    THEN LowerLetters[CHOOSE i \in 1..Len(UpperLetters) : UpperLetters[i] = c]
    ELSE c

(* str.lower *)
lower(s) == [i \in 1..Len(s) |-> lower_char(s[i])]

StartsWith(s, q) == Len(q) <= Len(s) /\ SubSeq(s, 1, Len(q)) = q

(* q in s, for two str: a scan of s for the first place where q starts *)
RECURSIVE Contains(_, _)
Contains(q, s) ==
    IF Len(q) > Len(s) THEN FALSE
    ELSE IF StartsWith(s, q) THEN TRUE
    ELSE Contains(q, Tail(s))

(* a match that compares the query with the name as it is written *)
search_match_CaseSensitive(q, name) == Contains(q, name)

(* search_genres: the test of the comprehension, q in g.lower() *)
search_match(q, name) == Contains(q, lower(name))

(* search_genres: q = query.strip().lower() *)
search_key(query) == lower(strip(query))

(* search_genres: [(i, g) for i, g in enumerate(genres) if q in g.lower()] *)
search_results(q) ==
    SelectSeq([i \in 1..Len(genres) |-> <<i - 1, genres[i]>>],
              LAMBDA r : search_match(q, r[2]))

SearchPageSize == 15

(* SearchResultsView._total_pages *)
search_total_pages(results) == Max(1, Ceil(Len(results), SearchPageSize))

(* a slice that starts at the page number *)
search_page_slice_StartIsPage(results, page) ==
    [items |-> Slice(results, page, page + SearchPageSize),
     start |-> page,
     end   |-> page + SearchPageSize]

(* SearchResultsView._page_slice *)
search_page_slice(results, page) ==
    [items |-> Slice(results, page * SearchPageSize, page * SearchPageSize + SearchPageSize),
     start |-> page * SearchPageSize,
     end   |-> page * SearchPageSize + SearchPageSize]

(* SearchResultsView._make_embed: the title's query, the description's
   numbers and the lines of the page *)
search_make_embed(v) ==
    LET ps == search_page_slice(v.results, v.page)
    IN  [query |-> v.query, total |-> Len(v.results), page_no |-> v.page + 1,
         pages |-> search_total_pages(v.results),
         lines |-> [j \in 1..Len(ps.items) |->
                       [genre_id |-> ps.items[j][1], name |-> ps.items[j][2]]]]

(* buttons left as the constructor of the view made them *)
search_update_buttons_Stale(v) == v

(* SearchResultsView._update_buttons, applied to the view record *)
search_update_buttons(v) ==
    [v EXCEPT !.prev_disabled = (v.page <= 0),
              !.next_disabled = (v.page >= search_total_pages(v.results) - 1)]

(* the message (sent or edited) that ends every callback of the view *)
search_render(v) == [v EXCEPT !.embed = search_make_embed(v)]

(* SearchResultsView.__init__ *)
NewSearchView(u, results, query) ==
    search_update_buttons([user_id |-> u, results |-> results, query |-> query,
                           page |-> 0, prev_disabled |-> FALSE, next_disabled |-> FALSE,
                           stopped |-> FALSE, embed |-> <<>>])

offSearch == <<genres, progress, ratings, shown, nops, call, view, procs>>

(* /search, main.py:349-363: an empty key and an empty result are answered
   with a message, and no view is made *)
search_genres(u, query) ==
    LET q       == search_key(query)
        results == search_results(q)
    IN  /\ IF q = <<>> \/ results = <<>>
           THEN sview' = sview
           ELSE sview' = Some(search_render(NewSearchView(u, results, query)))
        /\ last' = [NoCall EXCEPT !.op = "search", !.user = u, !.arg = Some(query),
                                  !.err = (q = <<>> \/ results = <<>>)]
        /\ UNCHANGED offSearch

SearchAccepts(u) == sview /= None /\ ~Val(sview).stopped /\ Val(sview).user_id = u

(* SearchResultsView.interaction_check refusing another user *)
search_refused(u) ==
    /\ sview /= None /\ ~Val(sview).stopped /\ Val(sview).user_id /= u
    /\ last' = [NoCall EXCEPT !.op = "search_refused", !.user = u,
                              !.read = Some(Val(sview).page)]
    /\ UNCHANGED <<sview, offSearch>>

(* a next button that does not stop at the last page *)
search_next_Unbounded(u) ==
    /\ SearchAccepts(u)
    /\ sview' = Some(search_render(search_update_buttons(
                    [Val(sview) EXCEPT !.page = Val(sview).page + 1])))
    /\ last' = [NoCall EXCEPT !.op = "search_next", !.user = u, !.read = Some(Val(sview).page)]
    /\ UNCHANGED offSearch

(* SearchResultsView.prev_button *)
search_prev(u) ==
    /\ SearchAccepts(u)
    /\ sview' = Some(search_render(search_update_buttons(
                    [Val(sview) EXCEPT !.page = Max(0, Val(sview).page - 1)])))
    /\ last' = [NoCall EXCEPT !.op = "search_prev", !.user = u, !.read = Some(Val(sview).page)]
    /\ UNCHANGED offSearch

(* SearchResultsView.next_button *)
search_next(u) ==
    /\ SearchAccepts(u)
    /\ sview' = Some(search_render(search_update_buttons(
                    [Val(sview) EXCEPT !.page = Min(search_total_pages(Val(sview).results) - 1,
                                                    Val(sview).page + 1)])))
    /\ last' = [NoCall EXCEPT !.op = "search_next", !.user = u, !.read = Some(Val(sview).page)]
    /\ UNCHANGED offSearch

(* SearchResultsView.close_button *)
search_close(u) ==
    /\ SearchAccepts(u)
    /\ sview' = Some([Val(sview) EXCEPT !.stopped = TRUE])
    /\ last' = [NoCall EXCEPT !.op = "search_close", !.user = u, !.read = Some(Val(sview).page)]
    /\ UNCHANGED offSearch

----------------------------------------------------------------------------
(* SpecViews: /rank, /search and the two paginated views, over a catalog long
   enough for a search to reach a third page and over stores whose ranking is
   empty or reaches a third page that is not full. *)

MaxFound == MaxRated + 3

ViewSizes == {0, MaxRated}

Queries == {<<>>, <<"A", "Z">>, <<" ", "a", "z", " ">>, <<"g">>, <<"q">>}

InitViews ==
    /\ genres = CatalogOf(MaxFound)
    /\ progress = [u \in Users |-> None]
    /\ shown = [u \in Users |-> <<>>]
    /\ nops = 0
    /\ last = NoCall
    /\ InitOff
    /\ \E n \in ViewSizes :
          ratings = [u \in Users |-> [g \in GenreIds |->
                        IF u = 1 /\ g < n THEN Some(TableRow("ties", g)) ELSE None]]

NextSearch ==
    \/ \E u \in Users, query \in Queries : search_genres(u, query)
    \/ \E u \in Users : search_prev(u)
    \/ \E u \in Users : search_next(u)
    \/ \E u \in Users : search_close(u)
    \/ \E u \in Users : search_refused(u)

NextViews == NextRank \/ NextSearch

SpecViews == InitViews /\ [][NextViews]_vars

(* SpecSearch: /search and its view alone *)
SpecSearch == InitViews /\ [][NextSearch]_vars

----------------------------------------------------------------------------
(* Claims on the two paginated views *)

(* the least number of pages of k places, at least one, that hold n items *)
PagesFor(n, k) == CHOOSE t \in 1..(n + 1) : t * k >= n /\ (t = 1 \/ (t - 1) * k < n)

RankPages == total_pages(Val(view).items)

SearchPages == search_total_pages(Val(sview).results)

(* C11: the number of pages of a view is max(1, ceil(n/k)), which is 1 for
   no item at all; in every state of a search view or a ranking view the
   page lies in 0 .. pages - 1, whatever previous, next and order changes
   came before; previous pressed on page 0 leaves page 0 and next pressed
   on the last page leaves the last page. *)
C11_PageBounds ==
    /\ total_pages(<<>>) = 1
    /\ search_total_pages(<<>>) = 1
    /\ view /= None =>
          /\ RankPages = PagesFor(Len(Val(view).items), PageSize)
          /\ Val(view).page \in 0..(RankPages - 1)
          /\ last.op = "rank_prev" /\ last.read = Some(0) => Val(view).page = 0
          /\ last.op = "rank_next" /\ last.read = Some(RankPages - 1)
                => Val(view).page = RankPages - 1
    /\ sview /= None =>
          /\ SearchPages = PagesFor(Len(Val(sview).results), SearchPageSize)
          /\ Val(sview).page \in 0..(SearchPages - 1)
          /\ last.op = "search_prev" /\ last.read = Some(0) => Val(sview).page = 0
          /\ last.op = "search_next" /\ last.read = Some(SearchPages - 1)
                => Val(sview).page = SearchPages - 1

(* next was pressed on the third and last page of a search, while a ranking
   switched to ascending order stands on its third and last page *)
C11_Witness ==
    /\ sview /= None /\ view /= None
    /\ last.op = "search_next" /\ last.read = Some(2)
    /\ SearchPages = 3 /\ Val(sview).page = 2
    /\ Val(view).order = "asc" /\ RankPages = 3 /\ Val(view).page = 2

(* what a page of k places holds of s: the elements at the zero-based
   positions from .. to - 1 *)
ElementsAt(s, from, to) == [j \in 1..(to - from) |-> s[from + j]]

(* _page_slice of a view answers, for page p of n items, the offsets
   p*k and min(p*k + k, n) and the elements between the two *)
SliceAsStated(ps, s, p, k) ==
    /\ ps.start = p * k
    /\ ps.end = Min(ps.start + k, Len(s))
    /\ ps.end <= Len(s)
    /\ ps.items = ElementsAt(s, ps.start, ps.end)

(* C12: on every page 0 .. pages - 1 of a search view and of a ranking view,
   _page_slice returns start = page*k and end = min(start + k, n), the slice
   being the elements at the positions start .. end - 1, with end never
   above n. *)
C12_SliceOffsets ==
    /\ sview /= None =>
          \A p \in 0..(SearchPages - 1) :
              SliceAsStated(search_page_slice(Val(sview).results, p),
                            Val(sview).results, p, SearchPageSize)
    /\ view /= None =>
          \A p \in 0..(RankPages - 1) :
              SliceAsStated(page_slice(Val(view).items, Val(view).order, p),
                            sorted_items(Val(view).items, Val(view).order), p, PageSize)

----------------------------------------------------------------------------
(* Claims on /search *)

(* two characters that are the same, or the same letter in two cases *)
SameIgnoringCase(a, b) ==
    \/ a = b
    \/ \E i \in 1..Len(UpperLetters) :
          {a, b} = {UpperLetters[i], LowerLetters[i]}

(* the name holds the text at some place, letter case aside *)
HoldsIgnoringCase(name, text) ==
    \E at \in 0..(Len(name) - Len(text)) :
        \A j \in 1..Len(text) : SameIgnoringCase(name[at + j], text[j])

(* queries beyond those typed, for the search of search_genres taken alone *)
SearchInputs ==
    Queries \cup {<<"a">>, <<"Z">>, <<"J", "A">>, <<"e", "t", " ">>, <<"G", "1">>,
                  <<"1">>, <<"p", "p">>, <<"a", "z">>}

(* the entries as_found is to hold for a query: the catalog entries whose
   name holds the trimmed query, in ascending id, each once *)
FoundExactly(as_found, query) ==
    /\ \A j \in 1..Len(as_found) :
          /\ as_found[j][1] \in GenreIds
          /\ as_found[j][2] = GenreName(as_found[j][1])
          /\ HoldsIgnoringCase(as_found[j][2], strip(query))
    /\ \A j \in 1..(Len(as_found) - 1) : as_found[j][1] < as_found[j + 1][1]
    /\ \A g \in GenreIds :
          HoldsIgnoringCase(GenreName(g), strip(query))
             => \E j \in 1..Len(as_found) : as_found[j][1] = g

(* C13: a search whose trimmed query is not empty finds exactly the catalog
   entries (id, name) whose name contains the trimmed query, letter case
   aside, whatever the ratings are, by ascending id and each once; "az"
   finds (0, Jazz) only among Jazz, Pop, Metal. *)
C13_SearchResults ==
    /\ \A query \in SearchInputs :
          strip(query) /= <<>> => FoundExactly(search_results(search_key(query)), query)
    /\ search_results(search_key(<<"a", "z">>)) = << <<0, Jazz>> >>
    /\ last.op = "search" /\ ~last.err =>
          /\ sview /= None
          /\ Val(sview).user_id = last.user
          /\ FoundExactly(Val(sview).results, Val(last.arg))
          /\ Val(sview).embed.total = Len(Val(sview).results)
    /\ last.op = "search" /\ last.err =>
          \A g \in GenreIds : ~HoldsIgnoringCase(GenreName(g), strip(Val(last.arg)))
                              \/ strip(Val(last.arg)) = <<>>

(* user 1, whose 31 ratings play no part, searched " az " and was shown Jazz *)
C13_Witness ==
    /\ last.op = "search" /\ last.arg = Some(<<" ", "a", "z", " ">>) /\ last.user = 1
    /\ sview /= None /\ Val(sview).results = << <<0, Jazz>> >>
    /\ ratings[1][0] /= None

----------------------------------------------------------------------------
(* Claims on the form, the toggles and /info *)

(* the texts of at most two characters that int() reads as 0, 1, .. or 10 *)
ScoreTexts ==
    {Decimal(n) : n \in MinScore..MaxScore}
        \cup {<<"0">> \o Decimal(n) : n \in 0..9}
        \cup {<<"+">> \o Decimal(n) : n \in 0..9}
        \cup {<<"-", "0">>}

(* a score field that is filled in, with something else than a score *)
InvalidScore(raw) == strip(raw) /= <<>> /\ strip(raw) \notin ScoreTexts

BadScores == {<<"x">>, <<"1", "1">>, <<"-", "1">>, <<"7", "x">>}

ScoreInputs == FormScores \cup BadScores \cup {<<"1", "0">>, <<" ", "3">>, <<"+", "5">>, <<"0">>}

StoredScoreOk(s) == s = None \/ (Val(s) \in Int /\ Val(s) >= 0 /\ Val(s) <= 10)

(* C14: a form with a score that is not a number or not in 0..10 is refused
   whole: the store is left as it was (the other score and the comment are
   not written, no row is made); so every stored score is NULL or an
   integer in 0..10. *)
C14_InvalidScores ==
    /\ \A raw \in ScoreInputs :
          /\ parse_score(raw).err <=> InvalidScore(raw)
          /\ StoredScoreOk(parse_score(raw).val)
    /\ \A u \in Users, g \in GenreIds :
          ratings[u][g] /= None =>
              /\ StoredScoreOk(Val(ratings[u][g]).score1)
              /\ StoredScoreOk(Val(ratings[u][g]).score2)
    /\ \A u \in Users, g \in GenreIds, bad \in BadScores :
          /\ on_submit_table(ratings, u, g, bad, <<"7">>, Str_x) = ratings
          /\ on_submit_table(ratings, u, g, <<"7">>, bad, Str_x) = ratings
    /\ last.op = "on_submit" /\ last.err =>
          get_rating(ratings, last.user, last.genre) = last.existing

(* a form with a score of 11 was refused for a pair whose row, written by
   an earlier form, still holds the 7 and nothing else *)
C14_Witness ==
    /\ last.op = "on_submit" /\ last.err
    /\ last.existing /= None
    /\ get_rating(ratings, last.user, last.genre) = last.existing
    /\ Val(last.existing).score1 = Some(7)
    /\ Val(last.existing).score2 = None

(* C15: /info with an id outside 0 .. len(genres) - 1 is refused and changes
   nothing: no rating row and no progress row is made or modified; with an
   id inside, the name answered is the catalog name at that position. *)
C15_ItemLookup ==
    [][ last'.op = "info_genre" /\ nops' = nops + 1 =>
           /\ ratings' = ratings
           /\ progress' = progress
           /\ last'.err <=> last'.genre \notin GenreIds
           /\ last'.err => last'.reply = None
           /\ ~last'.err => last'.reply = Some(genres[last'.genre + 1])
      ]_vars

(* /info was refused for the id len(genres), after a rating had been stored *)
C15_Witness ==
    /\ last.op = "info_genre" /\ last.err /\ last.genre = Len(genres)
    /\ \E u \in Users, g \in GenreIds : ratings[u][g] /= None
    /\ \A u \in Users : progress[u] = None

(* the flag a toggle op of `last` names *)
FlagOf(op) == IF op = "toggle_flag1" THEN "flag1" ELSE "flag2"

(* the value a flag has for a pair: that of its row, false with no row *)
FlagValue(rt, u, g, which) ==
    IF get_rating(rt, u, g) = None THEN 0 ELSE Val(get_rating(rt, u, g))[which]

Negation(f) == IF f = 0 THEN 1 ELSE 0

(* row `after` is row `before` but for the flag `which`; with no row before,
   every other field is at its default *)
OnlyFlagChanged(before, after, which) ==
    \A k \in FieldNames \ {which} :
        Val(after)[k] = IF before /= None THEN Val(before)[k] ELSE DefaultOf(k)

(* C16: a toggle writes the negation of the stored value of its flag and
   leaves the other flag, the two scores and the comment as they were; on a
   pair with no row it makes a row with its flag true and every other field
   at its default; two toggles of the same flag in a row give the flag the
   value it had. *)
C16_Toggle ==
    /\ last.op \in {"toggle_flag1", "toggle_flag2"} =>
          LET row == get_rating(ratings, last.user, last.genre)
          IN  /\ row /= None
              /\ Val(row)[FlagOf(last.op)] =
                    IF last.existing = None THEN 1
                    ELSE Negation(Val(last.existing)[FlagOf(last.op)])
              /\ OnlyFlagChanged(last.existing, row, FlagOf(last.op))
    /\ \A u \in Users, g \in GenreIds, which \in FlagNames :
          LET once  == toggle_flag_table(ratings, u, g, which)
              twice == toggle_flag_table(once, u, g, which)
          IN  /\ FlagValue(once, u, g, which) = Negation(FlagValue(ratings, u, g, which))
              /\ OnlyFlagChanged(get_rating(ratings, u, g), get_rating(once, u, g), which)
              /\ FlagValue(twice, u, g, which) = FlagValue(ratings, u, g, which)
              /\ OnlyFlagChanged(get_rating(ratings, u, g), get_rating(twice, u, g), which)
              /\ get_rating(ratings, u, g) /= None => twice = ratings

(* flag1 was toggled twice on a pair that had no row: the second toggle read
   the flag set by the first and cleared it *)
C16_Witness ==
    /\ last.op = "toggle_flag1" /\ last.existing /= None
    /\ Val(last.existing).flag1 = 1
    /\ Val(get_rating(ratings, last.user, last.genre)).flag1 = 0
    /\ nops = 2

----------------------------------------------------------------------------
(* Claims on the order select and the buttons of the views *)

(* the lines of an embed are the first page of the items in the order given *)
FirstPageIn(embed, items, order) ==
    LET sitems == sorted_items(items, order)
    IN  /\ embed.order = order
        /\ embed.page_no = 1
        /\ Len(embed.lines) = Min(PageSize, Len(sitems))
        /\ \A j \in 1..Len(embed.lines) :
              /\ embed.lines[j].rank = j
              /\ embed.lines[j].score = sitems[j][1]
              /\ embed.lines[j].genre_id = sitems[j][2]
        /\ \A j \in 1..(Len(embed.lines) - 1) :
              IF order = "desc"
              THEN embed.lines[j].score >= embed.lines[j + 1].score
              ELSE embed.lines[j].score <= embed.lines[j + 1].score

(* C17: choosing an order in the select of a ranking view, on any page and
   for either order (the current one included), sets the page to 0, and
   the message then shows the first page of the items sorted in the order
   chosen. *)
C17_OrderSwitch ==
    last.op = "rank_select" =>
        /\ view /= None
        /\ Val(view).order = Val(last.arg)
        /\ Val(view).page = 0
        /\ FirstPageIn(Val(view).embed, Val(view).items, Val(last.arg))

(* ascending order was chosen on the third page of a ranking in descending
   order: the view is back on page 0 and its first line is a lowest score *)
C17_Witness ==
    /\ last.op = "rank_select" /\ last.arg = Some("asc") /\ last.read = Some(2)
    /\ view /= None /\ Val(view).page = 0 /\ Val(view).order = "asc"
    /\ Len(Val(view).embed.lines) = PageSize
    /\ \A j \in 1..Len(Val(view).items) :
          Val(view).embed.lines[1].score <= Val(view).items[j][1]
    /\ \E j \in 1..Len(Val(view).items) :
          Val(view).embed.lines[1].score < Val(view).items[j][1]

(* C18: in every state of a search view and of a ranking view (as made, and
   after any previous, next or order choice) the previous button is
   disabled exactly on page 0 and the next button exactly on the last
   page. *)
C18_Buttons ==
    /\ view /= None =>
          /\ Val(view).prev_disabled <=> Val(view).page = 0
          /\ Val(view).next_disabled <=> Val(view).page = RankPages - 1
    /\ sview /= None =>
          /\ Val(sview).prev_disabled <=> Val(sview).page = 0
          /\ Val(sview).next_disabled <=> Val(sview).page = SearchPages - 1

(* next has taken a search to its second page of three, where both buttons
   are enabled, while a ranking stands on its last page, where next is
   disabled and previous is not *)
C18_Witness ==
    /\ sview /= None /\ view /= None
    /\ last.op = "search_next" /\ last.read = Some(0)
    /\ Val(sview).page = 1 /\ SearchPages = 3
    /\ ~Val(sview).prev_disabled /\ ~Val(sview).next_disabled
    /\ Val(view).page = RankPages - 1 /\ RankPages = 3
    /\ Val(view).next_disabled /\ ~Val(view).prev_disabled

----------------------------------------------------------------------------
(* SpecProgress: get_user_idx called on its own, between the /next of
   SpecCursor *)

(* one call of get_user_idx, main.py:83-92 *)
get_user_idx_call(u) ==
    /\ progress' = get_user_idx_table(progress, u)
    /\ last' = [NoCall EXCEPT !.op = "get_user_idx", !.user = u, !.read = progress[u],
                              !.reply = Some(get_user_idx(progress, u))]
    /\ UNCHANGED <<genres, ratings, shown, nops, offStore>>

NextProgress ==
    \/ NextCursor
    \/ \E u \in Users : get_user_idx_call(u)

SpecProgress == InitCursor /\ [][NextProgress]_vars

(* C19: get_user_idx called again and again is as called once: for a user
   with no row it returns 0 and stores the row (user, 0); for a user with a
   row it returns the stored idx and changes nothing; any number of calls
   in a row return the same value and leave the same table as one call. *)
C19_Idempotent ==
    /\ \A u \in Users :
          LET t1 == get_user_idx_table(progress, u)
              t2 == get_user_idx_table(t1, u)
              t3 == get_user_idx_table(t2, u)
          IN  /\ progress[u] = None =>
                    get_user_idx(progress, u) = 0 /\ t1 = [progress EXCEPT ![u] = Some(0)]
              /\ progress[u] /= None =>
                    get_user_idx(progress, u) = Val(progress[u]) /\ t1 = progress
              /\ get_user_idx(t1, u) = get_user_idx(progress, u)
              /\ get_user_idx(t2, u) = get_user_idx(progress, u)
              /\ t2 = t1 /\ t3 = t1
    /\ last.op = "get_user_idx" =>
          /\ last.read = None => last.reply = Some(0)
          /\ last.read /= None => last.reply = last.read
          /\ progress[last.user] = last.reply
          /\ get_user_idx(progress, last.user) = Val(last.reply)
          /\ get_user_idx_table(progress, last.user) = progress

(* a second call in a row for a user who had no row: it read the row (user, 0)
   the first call stored and returned 0 again, while the other user's idx,
   advanced by /next, stayed where it was *)
C19_Witness ==
    /\ last.op = "get_user_idx" /\ last.read = Some(0) /\ last.reply = Some(0)
    /\ shown[last.user] = <<>>
    /\ progress[last.user] = Some(0)
    /\ \E v \in Users \ {last.user} : progress[v] = Some(2)

----------------------------------------------------------------------------
(* Frame of the handlers on the store *)

(* C20: a handler touches its own key only: the form and the toggles for
   (u, g) change no rating row but that of (u, g) and no progress row;
   /next for u changes no rating row and no progress row but that of u; no
   handler but /next changes a progress row. *)
C20_Frame ==
    [][ nops' = nops + 1 =>
           /\ last'.op \in UpsertOps =>
                 /\ progress' = progress
                 /\ \A u \in Users, g \in GenreIds :
                       <<u, g>> /= <<last'.user, last'.genre>> => ratings'[u][g] = ratings[u][g]
           /\ last'.op = "next_genre" =>
                 /\ ratings' = ratings
                 /\ \A v \in Users \ {last'.user} : progress'[v] = progress[v]
           /\ last'.op /= "next_genre" => progress' = progress
           /\ last'.op \notin UpsertOps => ratings' = ratings
      ]_vars

(* flag2 of (2, 1) was toggled after a form had stored a 7 for (1, 0): the
   row of (1, 0) is as the form left it *)
C20_Witness ==
    /\ last.op = "toggle_flag2" /\ last.user = 2 /\ last.genre = 1
    /\ ratings[2][1] /= None /\ Val(ratings[2][1]).flag2 = 1
    /\ ratings[1][0] /= None /\ Val(ratings[1][0]).score1 = Some(7)
    /\ Val(ratings[1][0]).flag2 = 0
    /\ ratings[1][1] = None /\ ratings[2][0] = None
    /\ \A u \in Users : progress[u] = None

----------------------------------------------------------------------------
(* Blank fields of the form *)

(* a field of the form left blank: nothing typed, or white space only *)
Blanks == {<<>>, <<" ">>, <<" ", " ">>}

(* the value field k has in the row of a pair *)
FieldValue(rt, u, g, k) == Val(get_rating(rt, u, g))[k]

(* C21: a field of the form left blank counts as not supplied: for score1,
   score2 and the comment alike, a form in which the field is empty or
   holds white space only leaves the stored value of that field as it was,
   neither cleared nor replaced by an empty value (stated of the pairs that
   have a row, after a form that was and for any form that would be sent). *)
C21_BlankField ==
    /\ \A u \in Users, g \in GenreIds, blank \in Blanks :
          get_rating(ratings, u, g) /= None =>
          /\ FieldValue(on_submit_table(ratings, u, g, blank, <<"7">>, Str_y), u, g, "score1")
                = FieldValue(ratings, u, g, "score1")
          /\ FieldValue(on_submit_table(ratings, u, g, <<"7">>, blank, Str_y), u, g, "score2")
                = FieldValue(ratings, u, g, "score2")
          /\ FieldValue(on_submit_table(ratings, u, g, <<"7">>, <<"7">>, blank), u, g, "comment")
                = FieldValue(ratings, u, g, "comment")
    /\ (last.op = "on_submit" /\ ~last.err /\ last.fields.comment = Some(<<>>)
           /\ last.existing /= None) =>
          FieldValue(ratings, last.user, last.genre, "comment") = Val(last.existing).comment

----------------------------------------------------------------------------
(* The pages of a view, put end to end *)

SearchPageItems(p) == search_page_slice(Val(sview).results, p).items

RankPageItems(p) == page_slice(Val(view).items, Val(view).order, p).items

(* the slices of the pages 0 .. p of the search view, one after the other *)
RECURSIVE SearchPagesUpTo(_)
SearchPagesUpTo(p) ==
    IF p < 0 THEN <<>> ELSE SearchPagesUpTo(p - 1) \o SearchPageItems(p)

(* the slices of the pages 0 .. p of the ranking view, one after the other *)
RECURSIVE RankPagesUpTo(_)
RankPagesUpTo(p) ==
    IF p < 0 THEN <<>> ELSE RankPagesUpTo(p - 1) \o RankPageItems(p)

(* no genre id comes twice in a sequence of tuples that carry it at place k *)
IdsOnce(s, k) == \A i \in 1..Len(s) : \A j \in 1..Len(s) : s[i][k] = s[j][k] => i = j

(* C22: the pages of a view part its sequence: for a search view and for a
   ranking view, over n >= 1 elements, the slices of the pages
   0 .. pages - 1 put end to end are the sequence itself (sorted, for the
   ranking), every element once, and each of those pages holds at least one
   element and at most page_size. *)
C22_Partition ==
    /\ sview /= None =>
          /\ Val(sview).results /= <<>>
          /\ SearchPagesUpTo(SearchPages - 1) = Val(sview).results
          /\ IdsOnce(SearchPagesUpTo(SearchPages - 1), 1)
          /\ \A p \in 0..(SearchPages - 1) :
                Len(SearchPageItems(p)) \in 1..SearchPageSize
    /\ view /= None =>
          /\ Val(view).items /= <<>>
          /\ RankPagesUpTo(RankPages - 1) = sorted_items(Val(view).items, Val(view).order)
          /\ IdsOnce(RankPagesUpTo(RankPages - 1), 2)
          /\ \A p \in 0..(RankPages - 1) :
                Len(RankPageItems(p)) \in 1..PageSize

(* a search and a ranking of three pages each, the third of which is not
   full, the ranking being shown on that page in ascending order *)
C22_Witness ==
    /\ sview /= None /\ view /= None
    /\ SearchPages = 3 /\ RankPages = 3
    /\ Len(SearchPageItems(2)) < SearchPageSize
    /\ Len(RankPageItems(2)) < PageSize
    /\ Val(view).order = "asc" /\ Val(view).page = 2
    /\ last.op = "rank_next"

----------------------------------------------------------------------------
(* Who drives a view *)

RankCallbacks == {"rank_prev", "rank_next", "rank_select", "rank_close"}

SearchCallbacks == {"search_prev", "search_next", "search_close"}

(* what the claim speaks of: the page, the order and whether the view is open *)
RankDriven(v) == <<v.page, v.order, v.stopped>>

SearchDriven(v) == <<v.page, v.stopped>>

(* C23: only its owner drives a paginated view: a callback (previous, next,
   order, close) of a search view or a ranking view runs only for the user
   the view was made for, so page and order change through the owner's
   interactions only; the interaction of any other user is refused and
   leaves the page, the order and the open / closed state as they were. *)
C23_OwnerOnly ==
    [][ /\ last'.op \in RankCallbacks =>
              view /= None /\ last'.user = Val(view).user_id
        /\ last'.op = "rank_refused" =>
              /\ view /= None /\ last'.user /= Val(view).user_id
              /\ view' = view
        /\ (view /= None /\ view' /= None /\ last'.op /= "rank"
               /\ RankDriven(Val(view')) /= RankDriven(Val(view))) =>
              last'.op \in RankCallbacks /\ last'.user = Val(view).user_id
        /\ last'.op \in SearchCallbacks =>
              sview /= None /\ last'.user = Val(sview).user_id
        /\ last'.op = "search_refused" =>
              /\ sview /= None /\ last'.user /= Val(sview).user_id
              /\ sview' = sview
        /\ (sview /= None /\ sview' /= None /\ last'.op /= "search"
               /\ SearchDriven(Val(sview')) /= SearchDriven(Val(sview))) =>
              last'.op \in SearchCallbacks /\ last'.user = Val(sview).user_id
      ]_vars

(* user 2 was refused on the ranking of user 1, which stays open on its
   third page in ascending order, while user 2 has a search of their own
   open on its second page *)
C23_Witness ==
    /\ last.op = "rank_refused" /\ last.user = 2
    /\ view /= None /\ Val(view).user_id = 1
    /\ ~Val(view).stopped /\ Val(view).page = 2 /\ Val(view).order = "asc"
    /\ sview /= None /\ Val(sview).user_id = 2 /\ Val(sview).page = 1

====
